---------------------------- MODULE Spec2Model ----------------------------
(***************************************************************************)
(* Model of src/main.py: the clock utilities (add_subtract_minutes,        *)
(* get_target_datetime), LoopController (a recurring task on Tk's after    *)
(* queue), BulbController (the cached power state of one bulb) and the     *)
(* two schedulers of App (auto-on at sunset + offset, auto-off at a fixed  *)
(* time of day).                                                           *)
(*                                                                         *)
(* Conventions.  A Python str is a tuple of one-character strings, so      *)
(* that parsing and formatting are computed.  None is the empty tuple and  *)
(* an optional value v is <<v>>.  A datetime is its number of seconds      *)
(* since midnight of day 0 (the clock is read to the second); its date()   *)
(* is the quotient by a day and its time() the remainder.                  *)
(***************************************************************************)
EXTENDS Integers, Sequences, FiniteSets, TLC

VARIABLES
    now,            \* the wall clock, datetime.now()
    device,         \* the bulb's real power state, behind the yeelight driver
    bulb,           \* App.bulb: the BulbController [ip, power_state]
    bulb_state,     \* what the subscriber (App.set_bulb_state) last received;
                    \* create_widgets sets it to get_power_state(), "off" with no bulb
    sunset,         \* App.sunset
    auto_on_var,    \* App.auto_on_var
    offset,         \* App.offset
    turn_on_time,   \* App.turn_on_time ("HH:MM"; None until first computed)
    turn_on_loop,   \* App.turn_on_loop: None or <<object id>>
    auto_off_var,   \* App.auto_off_var
    off_time,       \* App.off_time
    turn_off_time,  \* App.turn_off_time (a datetime; None until first computed)
    turn_off_loop,  \* App.turn_off_loop: None or <<object id>>
    heap,           \* the live LoopController objects: id -> [task, _loop_id]
    timers,         \* Tk's after queue: records [id, due, obj]
    ev,             \* what the last handler did (calls, commands, fault)
    run,            \* the current run of consecutive turn_on() calls
    fired,          \* per scheduler: proxy calls made by ticks since its loop was started
    call            \* the last call of a clock utility and its result

vars == <<now, device, bulb, bulb_state, sunset, auto_on_var, offset,
          turn_on_time, turn_on_loop, auto_off_var, off_time, turn_off_time,
          turn_off_loop, heap, timers, ev, run, fired, call>>

None == <<>>

(***************************************************************************)
(* Bounds of the model.                                                    *)
(***************************************************************************)
MaxDay == 1         \* the clock runs over days 0..MaxDay
MaxCount == 2       \* the counters of run and fired saturate here

(***************************************************************************)
(* datetime arithmetic.                                                    *)
(***************************************************************************)
SecondsPerMinute == 60
MinutesPerHour == 60
HoursPerDay == 24
SecondsPerHour == SecondsPerMinute * MinutesPerHour
SecondsPerDay == SecondsPerHour * HoursPerDay
MinutesPerDay == MinutesPerHour * HoursPerDay

date(dt) == dt \div SecondsPerDay
time(dt) == dt % SecondsPerDay
combine(d, t) == d * SecondsPerDay + t
timedelta_minutes(n) == n * SecondsPerMinute
timedelta_days(n) == n * SecondsPerDay

DigitChars == <<"0", "1", "2", "3", "4", "5", "6", "7", "8", "9">>
Digit(n) == DigitChars[n + 1]
DigitVal(c) == (CHOOSE i \in 1..10 : DigitChars[i] = c) - 1

RECURSIVE DigitsVal(_)
DigitsVal(s) ==
    IF s = <<>> THEN 0
    ELSE 10 * DigitsVal(SubSeq(s, 1, Len(s) - 1)) + DigitVal(s[Len(s)])

\* int(str): an optional sign, then decimal digits
int(s) == IF s[1] = "-" THEN 0 - DigitsVal(Tail(s)) ELSE DigitsVal(s)

\* datetime.strptime(s, "%H:%M"): the hour (one or two digits), a colon, the
\* minute; the date is the default one, day 0 here
strptime(s) ==
    LET colon == CHOOSE i \in 1..Len(s) : s[i] = ":"
        hour == DigitsVal(SubSeq(s, 1, colon - 1))
        minute == DigitsVal(SubSeq(s, colon + 1, Len(s)))
    IN  combine(0, hour * SecondsPerHour + minute * SecondsPerMinute)

\* dt.strftime("%H:%M"): hour and minute of the time of day, two digits each
strftime(dt) ==
    LET hour == time(dt) \div SecondsPerHour
        minute == (time(dt) % SecondsPerHour) \div SecondsPerMinute
    IN  <<Digit(hour \div 10), Digit(hour % 10), ":",
          Digit(minute \div 10), Digit(minute % 10)>>

\* a mutant: the sum is held inside the day instead of wrapping over midnight
add_subtract_minutes_clamped(t, minutes) ==
    LET total == strptime(t) + timedelta_minutes(int(minutes))
    IN  strftime(IF total < 0 THEN 0
                 ELSE IF total >= SecondsPerDay THEN SecondsPerDay - SecondsPerMinute
                 ELSE total)

add_subtract_minutes(t, minutes) ==
    LET time_obj == strptime(t)
        new_time == time_obj + timedelta_minutes(int(minutes))
    IN  strftime(new_time)

\* a mutant: the comparison of line 29 made non-strict
get_target_datetime_le(target_time, clock) ==
    LET target == time(strptime(target_time))
        target_datetime == combine(date(clock), target)
    IN  IF target <= time(clock)
        THEN target_datetime + timedelta_days(1)
        ELSE target_datetime

\* a mutant: the day of line 30 is never added
get_target_datetime_today(target_time, clock) ==
    combine(date(clock), time(strptime(target_time)))

\* `clock` is the value datetime.now() returns inside the call
get_target_datetime(target_time, clock) ==
    LET target == time(strptime(target_time))
        target_datetime == combine(date(clock), target)
    IN  IF target < time(clock)
        THEN target_datetime + timedelta_days(1)
        ELSE target_datetime

(***************************************************************************)
(* Inputs of the model: what the clock, the sunset provider, the settings  *)
(* widgets and the driver can deliver.                                     *)
(***************************************************************************)
HM(h, m) == <<Digit(h \div 10), Digit(h % 10), ":", Digit(m \div 10), Digit(m % 10)>>

ClockMinutes ==
    {21 * MinutesPerHour + 59, 22 * MinutesPerHour, 23 * MinutesPerHour + 10,
     23 * MinutesPerHour + 20}
ClockInstants == {combine(d, m * SecondsPerMinute) : d \in 0..MaxDay, m \in ClockMinutes}
StartInstant == CHOOSE t \in ClockInstants : \A u \in ClockInstants : t <= u

SunsetValues == {HM(22, 0), HM(22, 10)}              \* HttpRequests.get_sunset
OffsetValues == {<<"0">>, <<"-", "1", "0">>}        \* the offset spinbox
OffTimes == {<<"2", "2", ":", "0", "0">>, <<"7", ":", "0", "0">>}   \* the combobox
DriverOutcomes == {"ok", "fail"}
\* one outcome per driver call of a handler; toggle() and the constructor make two
Outs == [1..2 -> DriverOutcomes]
BULB_IP == <<"192.168.0.18">>

(***************************************************************************)
(* A handler runs on a snapshot s of the program state and returns the     *)
(* state it leaves.  s.ev.exc names the exception in flight, if any: the   *)
(* statements after a raising call are skipped.  s.ret is the value the    *)
(* last call returned, s.outs the driver's outcomes still to come.         *)
(***************************************************************************)
Cur(op, outs) ==
    [now |-> now, device |-> device, bulb |-> bulb, bulb_state |-> bulb_state,
     sunset |-> sunset, auto_on_var |-> auto_on_var, offset |-> offset,
     turn_on_time |-> turn_on_time, turn_on_loop |-> turn_on_loop,
     auto_off_var |-> auto_off_var, off_time |-> off_time,
     turn_off_time |-> turn_off_time, turn_off_loop |-> turn_off_loop,
     heap |-> heap, timers |-> timers, outs |-> outs, ret |-> "",
     ev |-> [op |-> op, task |-> "", exc |-> "none", cmds |-> <<>>,
             notes |-> <<>>, calls |-> <<>>, loops |-> <<>>]]

ok(s) == s.ev.exc = "none"

\* a method of yeelight's Bulb: it takes effect and returns, or raises
\* BulbException and leaves the device as it was
driver(s, cmd) ==
    LET out == Head(s.outs)
        s1 == [s EXCEPT !.outs = Tail(@), !.ev.cmds = Append(@, <<cmd, out>>)]
        effect == CASE cmd = "turn_on" -> "on"
                    [] cmd = "turn_off" -> "off"
                    [] cmd = "toggle" -> IF s.device = "on" THEN "off" ELSE "on"
                    [] OTHER -> s.device
    IN  IF out = "ok"
        THEN [s1 EXCEPT !.device = effect, !.ret = effect]
        ELSE [s1 EXCEPT !.ev.exc = "BulbException"]

(***************************************************************************)
(* BulbController                                                          *)
(***************************************************************************)
\* a mutant: the receiver is not called
_notify_nobody(s) == s

_notify(s) ==
    \* App registers set_bulb_state as the receiver of every controller
    [s EXCEPT !.bulb_state = s.bulb.power_state,
              !.ev.notes = Append(@, s.bulb.power_state)]

get_power_state(s) ==
    IF s.bulb.ip # None
    THEN driver(s, "get_properties")
    ELSE [s EXCEPT !.ret = "off"]

_check_bulb(s) ==
    LET s1 == driver(s, "get_properties")
    IN  IF ok(s1) THEN s1 ELSE [s1 EXCEPT !.ev.exc = "ConnectionError"]

\* a mutant: the cached state is flipped instead of read back from the device
toggle_flip(s) ==
    LET s0 == [s EXCEPT !.ev.calls = Append(@, "toggle")]
    IN  IF s0.bulb.ip # None
        THEN LET s1 == driver(s0, "toggle")
             IN  IF ~ok(s1) THEN s1
                 ELSE _notify([s1 EXCEPT !.bulb.power_state =
                                 IF s.bulb.power_state = "on" THEN "off" ELSE "on"])
        ELSE s0

\* a mutant: the cache and the display are refreshed even when the query raised
toggle_blind(s) ==
    LET s0 == [s EXCEPT !.ev.calls = Append(@, "toggle")]
    IN  IF s0.bulb.ip # None
        THEN LET s1 == driver(s0, "toggle")
                 s2 == get_power_state(s1)
             IN  IF ~ok(s1) THEN s1
                 ELSE _notify([s2 EXCEPT !.bulb.power_state = s2.device])
        ELSE s0

toggle(s) ==
    LET s0 == [s EXCEPT !.ev.calls = Append(@, "toggle")]
    IN  IF s0.bulb.ip # None
        THEN LET s1 == driver(s0, "toggle")
                 s2 == get_power_state(s1)
             IN  IF ~ok(s1) THEN s1
                 ELSE IF ~ok(s2) THEN s2
                 ELSE _notify([s2 EXCEPT !.bulb.power_state = s2.ret])
        ELSE s0

\* a mutant: the guard on the cached state is dropped
turn_on_unguarded(s) ==
    LET s0 == [s EXCEPT !.ev.calls = Append(@, "turn_on")]
    IN  IF s0.bulb.ip # None
        THEN LET s1 == driver(s0, "turn_on")
             IN  IF ~ok(s1) THEN s1
                 ELSE _notify([s1 EXCEPT !.bulb.power_state = "on"])
        ELSE s0

turn_on(s) ==
    LET s0 == [s EXCEPT !.ev.calls = Append(@, "turn_on")]
    IN  IF s0.bulb.ip # None
        THEN IF s0.bulb.power_state = "off"
             THEN LET s1 == driver(s0, "turn_on")
                  IN  IF ~ok(s1) THEN s1
                      ELSE _notify([s1 EXCEPT !.bulb.power_state = "on"])
             ELSE s0
        ELSE s0

\* a mutant: the guard on the cached state is dropped
turn_off_unguarded(s) ==
    LET s0 == [s EXCEPT !.ev.calls = Append(@, "turn_off")]
    IN  IF s0.bulb.ip # None
        THEN LET s1 == driver(s0, "turn_off")
             IN  IF ~ok(s1) THEN s1
                 ELSE _notify([s1 EXCEPT !.bulb.power_state = "off"])
        ELSE s0

turn_off(s) ==
    LET s0 == [s EXCEPT !.ev.calls = Append(@, "turn_off")]
    IN  IF s0.bulb.ip # None
        THEN IF s0.bulb.power_state = "on"
             THEN LET s1 == driver(s0, "turn_off")
                  IN  IF ~ok(s1) THEN s1
                      ELSE _notify([s1 EXCEPT !.bulb.power_state = "off"])
             ELSE s0
        ELSE s0

\* BulbController(ip, receiver): s.bulb is the object under construction
BulbController(s, ip) ==
    LET s0 == [s EXCEPT !.bulb = [ip |-> ip, power_state |-> "unset"]]
    IN  IF ip # None
        THEN LET s1 == _check_bulb(s0)
                 s2 == get_power_state(s1)
             IN  IF ~ok(s1) THEN s1
                 ELSE IF ~ok(s2) THEN s2
                 ELSE _notify([s2 EXCEPT !.bulb.power_state = s2.ret])
        ELSE s0

(***************************************************************************)
(* Tk's after queue and LoopController.  An after id is never reused       *)
(* while something still holds it; the model names a new timer, and a new  *)
(* object, by the least number not in use.                                 *)
(***************************************************************************)
IdsInUse(s) ==
    {t.id : t \in s.timers}
        \cup {s.heap[o]._loop_id[1] : o \in {x \in DOMAIN s.heap : s.heap[x]._loop_id # None}}
Least(used) == CHOOSE n \in 1..(Cardinality(used) + 1) : n \notin used /\ \A m \in 1..(n - 1) : m \in used

INTERVAL_MS == 1000
\* tk_root.after(ms, self._run_task) for object o: the new timer's id
after(s, ms, o) ==
    LET id == Least(IdsInUse(s))
    IN  [s EXCEPT !.timers = @ \cup {[id |-> id, due |-> s.now + ms \div 1000, obj |-> o]},
                  !.ret = id]

after_cancel(s, id) == [s EXCEPT !.timers = {t \in @ : t.id # id}]

\* LoopController(tk_root, interval_ms, task): the new object's id is s.ret
LoopController(s, task) ==
    LET o == Least(DOMAIN s.heap)
    IN  [s EXCEPT !.heap = (o :> [task |-> task, _loop_id |-> None]) @@ @, !.ret = o]

_start_loop(s, o) ==
    LET s1 == after(s, INTERVAL_MS, o)
    IN  [s1 EXCEPT !.heap[o]._loop_id = <<s1.ret>>,
                   !.ev.loops = Append(@, <<"_start_loop", s.heap[o].task>>)]

\* a mutant: start() schedules a firing whether or not one is pending
start_always(s, o) ==
    _start_loop([s EXCEPT !.ev.loops = Append(@, <<"start", s.heap[o].task>>)], o)

start(s, o) ==
    LET s0 == [s EXCEPT !.ev.loops = Append(@, <<"start", s.heap[o].task>>)]
    IN  IF s0.heap[o]._loop_id = None THEN _start_loop(s0, o) ELSE s0

\* a mutant: stop() forgets the handle without cancelling the firing
stop_forget(s, o) ==
    [s EXCEPT !.heap[o]._loop_id = None,
              !.ev.loops = Append(@, <<"stop", s.heap[o].task>>)]

stop(s, o) ==
    LET s0 == [s EXCEPT !.ev.loops = Append(@, <<"stop", s.heap[o].task>>)]
    IN  IF s0.heap[o]._loop_id # None
        THEN [after_cancel(s0, s0.heap[o]._loop_id[1]) EXCEPT !.heap[o]._loop_id = None]
        ELSE s0

is_running(s, o) == s.heap[o]._loop_id # None

(***************************************************************************)
(* App: the two schedulers and the settings handlers.                      *)
(***************************************************************************)
\* a mutant: the comparison of line 410 reversed
turn_on_task_early(s) ==
    IF time(s.now) <= time(strptime(s.turn_on_time))
    THEN LET s1 == turn_on(s)
             s2 == IF s1.turn_on_loop # None
                   THEN [stop(s1, s1.turn_on_loop[1]) EXCEPT !.turn_on_loop = None]
                   ELSE s1
         IN  IF ~ok(s1) THEN s1 ELSE s2
    ELSE s

turn_on_task(s) ==
    IF time(strptime(s.turn_on_time)) <= time(s.now)
    THEN LET s1 == turn_on(s)
             s2 == IF s1.turn_on_loop # None
                   THEN [stop(s1, s1.turn_on_loop[1]) EXCEPT !.turn_on_loop = None]
                   ELSE s1
         IN  IF ~ok(s1) THEN s1 ELSE s2
    ELSE s

\* a mutant: the deadline compared by its time of day alone
turn_off_task_tod(s) ==
    IF time(s.turn_off_time[1]) <= time(s.now)
    THEN LET s1 == turn_off(s)
             s2 == IF s1.turn_off_loop # None
                   THEN [stop(s1, s1.turn_off_loop[1]) EXCEPT !.turn_off_loop = None]
                   ELSE s1
         IN  IF ~ok(s1) THEN s1 ELSE s2
    ELSE s

turn_off_task(s) ==
    IF s.turn_off_time[1] <= s.now
    THEN LET s1 == turn_off(s)
             s2 == IF s1.turn_off_loop # None
                   THEN [stop(s1, s1.turn_off_loop[1]) EXCEPT !.turn_off_loop = None]
                   ELSE s1
         IN  IF ~ok(s1) THEN s1 ELSE s2
    ELSE s

\* self.task() of a LoopController: the bound method it was built with
task(s, o) ==
    IF s.heap[o].task = "turn_on_task" THEN turn_on_task(s) ELSE turn_off_task(s)

\* a mutant: the firing runs the task and schedules nothing
_run_task_once(s, o) == task(s, o)

\* a mutant: the firing reschedules without looking at _loop_id
_run_task_always(s, o) ==
    LET s1 == task(s, o)
        s2 == after(s1, INTERVAL_MS, o)
    IN  IF ~ok(s1) THEN s1
        ELSE [s2 EXCEPT !.heap[o]._loop_id = <<s2.ret>>]

_run_task(s, o) ==
    LET s1 == task(s, o)
        s2 == after(s1, INTERVAL_MS, o)
    IN  IF ~ok(s1) THEN s1
        ELSE IF s1.heap[o]._loop_id # None
        THEN [s2 EXCEPT !.heap[o]._loop_id = <<s2.ret>>]
        ELSE s1

\* a mutant: unchecking leaves the loop running
sunset_turn_on_nostop(s) ==
    LET s1 == IF s.turn_on_loop = None
              THEN LET n == LoopController(s, "turn_on_task")
                   IN  [n EXCEPT !.turn_on_loop = <<n.ret>>]
              ELSE s
        o == s1.turn_on_loop[1]
    IN  IF s1.auto_on_var = 1
        THEN start([s1 EXCEPT !.turn_on_time = add_subtract_minutes(s1.sunset, s1.offset)], o)
        ELSE s1

sunset_turn_on(s) ==
    LET s1 == IF s.turn_on_loop = None
              THEN LET n == LoopController(s, "turn_on_task")
                   IN  [n EXCEPT !.turn_on_loop = <<n.ret>>]
              ELSE s
        o == s1.turn_on_loop[1]
    IN  IF s1.auto_on_var = 1
        THEN start([s1 EXCEPT !.turn_on_time = add_subtract_minutes(s1.sunset, s1.offset)], o)
        ELSE stop(s1, o)

auto_off(s) ==
    LET s1 == IF s.turn_off_loop = None
              THEN LET n == LoopController(s, "turn_off_task")
                   IN  [n EXCEPT !.turn_off_loop = <<n.ret>>]
              ELSE s
        o == s1.turn_off_loop[1]
    IN  IF s1.auto_off_var = 1
        THEN start([s1 EXCEPT !.turn_off_time = <<get_target_datetime(s1.off_time, s1.now)>>], o)
        ELSE stop(s1, o)

\* the checkbutton has set auto_on_var to v; both branches call sunset_turn_on()
handle_sunset_turn_on_widgets(s, v) == sunset_turn_on([s EXCEPT !.auto_on_var = v])

handle_auto_off_widgets(s, v) == auto_off([s EXCEPT !.auto_off_var = v])

\* a mutant: the selection is stored, the deadline is left for the next enable
update_turn_off_time_lazy(s, v) == [s EXCEPT !.off_time = v]

\* <<ComboboxSelected>>: the combobox holds v (and so does off_time, its textvariable)
update_turn_off_time(s, v) ==
    [s EXCEPT !.off_time = v, !.turn_off_time = <<get_target_datetime(v, s.now)>>]

\* http.set_location answered with `found` (None: KeyError, location not found)
set_location(s, found) ==
    IF found # None THEN [s EXCEPT !.sunset = found[1]] ELSE s

\* the assignment to self.bulb happens only if the constructor returns
set_ip(s, ip) ==
    LET s1 == BulbController(s, ip)
    IN  IF ok(s1) THEN s1 ELSE [s1 EXCEPT !.bulb = s.bulb]

toggle_bulb(s) == toggle(s)

(***************************************************************************)
(* Observation of a handler, kept for the properties below.                *)
(***************************************************************************)
Min(a, b) == IF a < b THEN a ELSE b
Count(seq, x) == Cardinality({i \in 1..Len(seq) : seq[i] = x})
NoRun == [start |-> "none", cmds |-> 0, notes |-> 0, raised |-> FALSE]

\* the run of consecutive turn_on() calls on one connected controller: the cached
\* state it began in, the "on" commands the driver accepted, the notifications
NextRun(s) ==
    IF s.ev.op = "set_ip" THEN NoRun
    ELSE IF s.ev.calls = <<>> THEN run
    ELSE IF s.ev.calls = <<"turn_on">> /\ bulb.ip # None
    THEN LET base == IF run.start = "none"
                     THEN [NoRun EXCEPT !.start = bulb.power_state]
                     ELSE run
         IN  [base EXCEPT
                !.cmds = Min(MaxCount, @ + Count(s.ev.cmds, <<"turn_on", "ok">>)),
                !.notes = Min(MaxCount, @ + Len(s.ev.notes)),
                !.raised = @ \/ ~ok(s)]
    ELSE NoRun

Scheduler(taskname) == IF taskname = "turn_on_task" THEN "on" ELSE "off"

\* per scheduler, the turn_on()/turn_off() calls its ticks made since its loop
\* was last started
NextFired(s) ==
    [k \in {"on", "off"} |->
        IF \E i \in 1..Len(s.ev.loops) :
              s.ev.loops[i][1] = "_start_loop" /\ Scheduler(s.ev.loops[i][2]) = k
        THEN 0
        ELSE IF s.ev.op = "_run_task" /\ Scheduler(s.ev.task) = k /\ s.ev.calls # <<>>
        THEN Min(MaxCount, fired[k] + 1)
        ELSE fired[k]]

\* objects nothing refers to any more are gone
Live(s) ==
    {o \in DOMAIN s.heap :
        \/ s.turn_on_loop = <<o>>
        \/ s.turn_off_loop = <<o>>
        \/ \E t \in s.timers : t.obj = o}

Commit(s) ==
    /\ now' = now
    /\ device' = s.device
    /\ bulb' = s.bulb
    /\ bulb_state' = s.bulb_state
    /\ sunset' = s.sunset
    /\ auto_on_var' = s.auto_on_var
    /\ offset' = s.offset
    /\ turn_on_time' = s.turn_on_time
    /\ turn_on_loop' = s.turn_on_loop
    /\ auto_off_var' = s.auto_off_var
    /\ off_time' = s.off_time
    /\ turn_off_time' = s.turn_off_time
    /\ turn_off_loop' = s.turn_off_loop
    /\ heap' = [o \in Live(s) |-> s.heap[o]]
    /\ timers' = s.timers
    /\ ev' = s.ev
    /\ run' = NextRun(s)
    /\ fired' = NextFired(s)
    /\ call' = call

\* call: the utility called, its arguments as strings (time, minutes) and as the
\* numbers they were written from (tod: minutes of the day, delta), the clock at
\* the call, and the result (str or dt) once done
NoCall == [fn |-> "none", time |-> <<>>, minutes |-> <<>>, tod |-> 0, delta |-> 0,
           done |-> FALSE, str |-> <<>>, dt |-> 0]
NoOuts == <<>>

(***************************************************************************)
(* The state App.__init__ leaves: the configuration is loaded and each      *)
(* scheduler enabled in it is armed.  No bulb is connected yet: with an ip *)
(* in the configuration, BulbController.__init__ (line 296) notifies       *)
(* set_bulb_state before App.bulb_state exists (line 261), and the         *)
(* constructor of App does not return.  set_ip connects the bulb later.    *)
(***************************************************************************)
Init ==
    \E cfg_on \in {0, 1}, cfg_offset \in OffsetValues, cfg_off \in {0, 1},
       cfg_off_time \in OffTimes, cfg_sunset \in SunsetValues :
        LET s0 == [now |-> StartInstant, device |-> "off",
                   bulb |-> [ip |-> None, power_state |-> "unset"], bulb_state |-> "off",
                   sunset |-> cfg_sunset, auto_on_var |-> cfg_on, offset |-> cfg_offset,
                   turn_on_time |-> None, turn_on_loop |-> None,
                   auto_off_var |-> cfg_off, off_time |-> cfg_off_time,
                   turn_off_time |-> None, turn_off_loop |-> None,
                   heap |-> <<>>, timers |-> {}, outs |-> NoOuts, ret |-> "",
                   ev |-> [op |-> "__init__", task |-> "", exc |-> "none", cmds |-> <<>>,
                           notes |-> <<>>, calls |-> <<>>, loops |-> <<>>]]
            s1 == IF cfg_on = 1 THEN sunset_turn_on(s0) ELSE s0
            s2 == IF cfg_off = 1 THEN auto_off(s1) ELSE s1
        IN  /\ now = s2.now
            /\ device \in {"on", "off"}
            /\ bulb = s2.bulb
            /\ bulb_state = s2.bulb_state
            /\ sunset = s2.sunset
            /\ auto_on_var = s2.auto_on_var
            /\ offset = s2.offset
            /\ turn_on_time = s2.turn_on_time
            /\ turn_on_loop = s2.turn_on_loop
            /\ auto_off_var = s2.auto_off_var
            /\ off_time = s2.off_time
            /\ turn_off_time = s2.turn_off_time
            /\ turn_off_loop = s2.turn_off_loop
            /\ heap = s2.heap
            /\ timers = s2.timers
            /\ ev = s2.ev
            /\ run = NoRun
            /\ fired = [k \in {"on", "off"} |-> 0]
            /\ call = NoCall

(***************************************************************************)
(* The steps: time passes, a timer of the after queue fires, the user acts.*)
(***************************************************************************)
AdvanceClock ==
    /\ \E t \in ClockInstants : t > now /\ now' = t
    /\ UNCHANGED <<device, bulb, bulb_state, sunset, auto_on_var, offset, turn_on_time,
                   turn_on_loop, auto_off_var, off_time, turn_off_time, turn_off_loop,
                   heap, timers, ev, run, fired, call>>

\* Tk runs the earliest timer that is due, which leaves the queue as it is called
Fire ==
    \E t \in timers, outs \in Outs :
        /\ t.due <= now
        /\ \A u \in timers : t.due <= u.due
        /\ Commit(_run_task([Cur("_run_task", outs) EXCEPT
                                !.timers = @ \ {t}, !.ev.task = heap[t.obj].task], t.obj))

ClickAutoOn ==
    Commit(handle_sunset_turn_on_widgets(Cur("handle_sunset_turn_on_widgets", NoOuts),
                                         1 - auto_on_var))

\* the spinbox is enabled while auto-on is checked; its command is sunset_turn_on
SpinOffset ==
    /\ auto_on_var = 1
    /\ \E v \in OffsetValues \ {offset} :
          Commit(sunset_turn_on([Cur("sunset_turn_on", NoOuts) EXCEPT !.offset = v]))

ClickAutoOff ==
    Commit(handle_auto_off_widgets(Cur("handle_auto_off_widgets", NoOuts), 1 - auto_off_var))

\* the combobox is enabled while auto-off is checked
SelectOffTime ==
    /\ auto_off_var = 1
    /\ \E v \in OffTimes : Commit(update_turn_off_time(Cur("update_turn_off_time", NoOuts), v))

SetLocation ==
    \E found \in {None} \cup {<<v>> : v \in SunsetValues} :
        Commit(set_location(Cur("set_location", NoOuts), found))

SetIp == \E outs \in Outs : Commit(set_ip(Cur("set_ip", outs), BULB_IP))

ClickToggle == \E outs \in Outs : Commit(toggle_bulb(Cur("toggle_bulb", outs)))

Next ==
    \/ AdvanceClock
    \/ Fire
    \/ ClickAutoOn
    \/ SpinOffset
    \/ ClickAutoOff
    \/ SelectOffTime
    \/ SetLocation
    \/ SetIp
    \/ ClickToggle

Spec == Init /\ [][Next]_vars

(***************************************************************************)
(* Spec is the whole application.  The specifications below are its parts, *)
(* each small enough to be explored in full: each scheduler with the       *)
(* settings of the other left alone (SpecOn, SpecOff), the controller      *)
(* called directly (SpecProxy), the clock utilities on their own           *)
(* (SpecClock).                                                            *)
(***************************************************************************)
InitOn == Init /\ auto_off_var = 0
NextOn ==
    \/ AdvanceClock
    \/ Fire
    \/ ClickAutoOn
    \/ SpinOffset
    \/ SetLocation
    \/ SetIp
    \/ ClickToggle
SpecOn == InitOn /\ [][NextOn]_vars

InitOff == Init /\ auto_on_var = 0
NextOff ==
    \/ AdvanceClock
    \/ Fire
    \/ ClickAutoOff
    \/ SelectOffTime
    \/ SetIp
    \/ ClickToggle
SpecOff == InitOff /\ [][NextOff]_vars

\* both schedulers as the configuration armed them, never unchecked, under
\* Tk's mainloop: time passes, a due timer is run; the user connects the
\* bulb.  A firing is due exactly when Fire is enabled, and a Fire
\* step always changes the after queue, so the last conjunct of SpecLive is
\* WF_vars(Fire) written out.
FireDue == \E t \in timers : t.due <= now
InitLive == Init
NextLive ==
    \/ AdvanceClock
    \/ Fire
    \/ SetIp
SpecLive ==
    /\ InitLive /\ [][NextLive]_vars
    /\ WF_vars(AdvanceClock)
    /\ ([]<>~FireDue) \/ ([]<><<Fire>>_vars)

CallTurnOn == \E outs \in Outs : Commit(turn_on(Cur("turn_on", outs)))
CallTurnOff == \E outs \in Outs : Commit(turn_off(Cur("turn_off", outs)))
CallToggle == \E outs \in Outs : Commit(toggle(Cur("toggle", outs)))

InitProxy == Init /\ auto_on_var = 0 /\ auto_off_var = 0
NextProxy ==
    \/ SetIp
    \/ CallTurnOn
    \/ CallTurnOff
    \/ CallToggle
SpecProxy == InitProxy /\ [][NextProxy]_vars

\* str(n) of an integer
RECURSIVE NatStr(_)
NatStr(n) == IF n < 10 THEN <<Digit(n)>> ELSE Append(NatStr(n \div 10), Digit(n % 10))
str(n) == IF n < 0 THEN <<"-">> \o NatStr(0 - n) ELSE NatStr(n)

\* "H:MM", the way the combobox writes its values
ComboValue(h, m) == NatStr(h) \o <<":", Digit(m \div 10), Digit(m % 10)>>

MaxSec == 1         \* the utilities are called at seconds 0..MaxSec of a minute
CallInstants ==
    {combine(d, m * SecondsPerMinute + sec) :
        d \in 0..MaxDay, m \in 0..(MinutesPerDay - 1), sec \in 0..MaxSec}
TargetInputs ==
    {[time |-> HM(22, 0), tod |-> 22 * MinutesPerHour],
     [time |-> HM(0, 0), tod |-> 0],
     [time |-> ComboValue(0, 0), tod |-> 0],
     [time |-> ComboValue(7, 0), tod |-> 7 * MinutesPerHour],
     [time |-> ComboValue(23, 50), tod |-> 23 * MinutesPerHour + 50]}
TimeInputs == {[time |-> HM(h, m), tod |-> h * MinutesPerHour + m] : h \in 0..23, m \in 0..59}
DeltaInputs == {-1500, -1440, -61, -60, -15, -1, 0, 1, 15, 60, 61, 1440, 1500}

InitClock ==
    /\ \/ \E i \in TimeInputs, d \in DeltaInputs :
             /\ call = [NoCall EXCEPT !.fn = "add_subtract_minutes", !.time = i.time,
                                      !.tod = i.tod, !.minutes = str(d), !.delta = d]
             /\ now = StartInstant
       \/ \E i \in TargetInputs :
             /\ call = [NoCall EXCEPT !.fn = "get_target_datetime", !.time = i.time,
                                      !.tod = i.tod]
             /\ now \in CallInstants
    /\ device = "off"
    /\ bulb = [ip |-> None, power_state |-> "unset"]
    /\ bulb_state = "off"
    /\ sunset = HM(22, 0)
    /\ auto_on_var = 0
    /\ offset = <<"0">>
    /\ turn_on_time = None
    /\ turn_on_loop = None
    /\ auto_off_var = 0
    /\ off_time = HM(0, 0)
    /\ turn_off_time = None
    /\ turn_off_loop = None
    /\ heap = <<>>
    /\ timers = {}
    /\ ev = [op |-> "__init__", task |-> "", exc |-> "none", cmds |-> <<>>,
             notes |-> <<>>, calls |-> <<>>, loops |-> <<>>]
    /\ run = NoRun
    /\ fired = [k \in {"on", "off"} |-> 0]

CallAddSubtractMinutes ==
    /\ call.fn = "add_subtract_minutes" /\ ~call.done
    /\ call' = [call EXCEPT !.done = TRUE,
                            !.str = add_subtract_minutes(call.time, call.minutes)]
    /\ UNCHANGED <<now, device, bulb, bulb_state, sunset, auto_on_var, offset,
                   turn_on_time, turn_on_loop, auto_off_var, off_time, turn_off_time,
                   turn_off_loop, heap, timers, ev, run, fired>>

CallGetTargetDatetime ==
    /\ call.fn = "get_target_datetime" /\ ~call.done
    /\ call' = [call EXCEPT !.done = TRUE, !.dt = get_target_datetime(call.time, now)]
    /\ UNCHANGED <<now, device, bulb, bulb_state, sunset, auto_on_var, offset,
                   turn_on_time, turn_on_loop, auto_off_var, off_time, turn_off_time,
                   turn_off_loop, heap, timers, ev, run, fired>>

NextClock ==
    \/ CallAddSubtractMinutes
    \/ CallGetTargetDatetime
SpecClock == InitClock /\ [][NextClock]_vars

(***************************************************************************)
(* Properties.                                                             *)
(***************************************************************************)
\* the pending firings of the loops built for task k
TimersOf(k) == {t \in timers : heap[t.obj].task = k}
\* a step of a handler (the clock stands still while a handler runs)
Handled == now' = now
TargetCalled == call.fn = "get_target_datetime" /\ call.done

\* C1 as stated: get_target_datetime gives today at T when T is after the current
\* time of day N and tomorrow at T when T <= N, so tomorrow when T equals N.
C1_RollsOnEquality ==
    TargetCalled =>
        LET T == call.tod * SecondsPerMinute
        IN  call.dt = IF T > time(now) THEN combine(date(now), T)
                      ELSE combine(date(now) + 1, T)

\* C1 (amended): get_target_datetime gives tomorrow at T only when T is strictly
\* before the current time of day N, and today at T when T >= N: when T equals N
\* the result is today, the current instant itself.
C1_RollsWhenEarlier ==
    TargetCalled =>
        LET T == call.tod * SecondsPerMinute
        IN  call.dt = IF T >= time(now) THEN combine(date(now), T)
                      ELSE combine(date(now) + 1, T)

\* C1 witness: a call made at the very instant T names, answered with that instant
C1_EqualityIsToday ==
    TargetCalled /\ call.tod * SecondsPerMinute = time(now) /\ call.dt = now

\* C7: add_subtract_minutes(S, O) is the time of day (minutes(S) + O) mod 1440
\* written as HH:MM, for offsets of either sign and of any magnitude.
C7_AddMinutesWraps ==
    (call.fn = "add_subtract_minutes" /\ call.done) =>
        LET w == (call.tod + call.delta) % MinutesPerDay
        IN  call.str = HM(w \div MinutesPerHour, w % MinutesPerHour)

\* C7 witness: 00:05 minus 61 minutes wrapped back over midnight to 23:04
C7_WrapsBackwards ==
    /\ call.fn = "add_subtract_minutes" /\ call.done
    /\ call.tod = 5 /\ call.delta = -61
    /\ call.str = <<"2", "3", ":", "0", "4">>

\* C2 as stated: a tick whose device command raised leaves a further firing of its
\* loop scheduled, so the loop keeps polling.
C2_LoopSurvivesFailure ==
    (ev.op = "_run_task" /\ ev.exc = "BulbException") => TimersOf(ev.task) # {}

\* C3: when a driver call made by turn_on, turn_off or toggle fails, the call
\* raises, the cached power_state is what it was before the call, and the
\* subscriber is not notified.
C3_FailedCallLeavesCache ==
    [][(/\ Handled
        /\ ev'.calls # <<>>
        /\ \E i \in 1..Len(ev'.cmds) : ev'.cmds[i][2] = "fail")
       => /\ ev'.exc = "BulbException"
          /\ bulb' = bulb
          /\ ev'.notes = <<>>
          /\ bulb_state' = bulb_state]_vars

\* C3 witness: toggle() whose command went through and whose state query failed
C3_ToggleQueryFailed ==
    /\ ev.calls = <<"toggle">>
    /\ ev.cmds = <<<<"toggle", "ok">>, <<"get_properties", "fail">>>>
    /\ ev.exc = "BulbException"
    /\ bulb.power_state # device

\* C4: over a run of consecutive turn_on() calls on a connected controller, the
\* driver accepts at most one "on" command, each with its one notification; when
\* every call of the run returned, it is exactly one if the cached state was off
\* before the first call and none if it was on.
C4_TurnOnIdempotent ==
    run.start # "none" =>
        /\ run.cmds <= 1
        /\ run.notes = run.cmds
        /\ ~run.raised => run.cmds = IF run.start = "off" THEN 1 ELSE 0

\* C4 witness: a second turn_on() in a row, which sent nothing, after one that
\* switched the bulb on
C4_SecondCallSilent ==
    /\ run = [start |-> "off", cmds |-> 1, notes |-> 1, raised |-> FALSE]
    /\ ev.calls = <<"turn_on">> /\ ev.cmds = <<>> /\ ev.notes = <<>>

StartCalled(e, k) == \E i \in 1..Len(e.loops) : e.loops[i] = <<"start", k>>
Tick(e, k) == e.op = "_run_task" /\ e.task = k

\* C5 as stated: after two start() calls in a row on a loop exactly one firing of
\* it is pending, and the second call changed nothing and ran no task.
C5_StartTwiceOnePending ==
    [][(/\ Handled
        /\ StartCalled(ev, "turn_on_task")
        /\ StartCalled(ev', "turn_on_task"))
       => /\ timers' = timers
          /\ Cardinality(TimersOf("turn_on_task")') = 1
          /\ ev'.calls = <<>>]_vars

\* C6: a firing whose task called stop() on its own loop does not reschedule:
\* when it returns the loop is not running and no firing of it is pending, so
\* the task cannot run again before a start().
C6_SelfStopEndsLoop ==
    \A k \in {"turn_on_task", "turn_off_task"} :
        (Tick(ev, k) /\ \E i \in 1..Len(ev.loops) : ev.loops[i] = <<"stop", k>>)
            => /\ TimersOf(k) = {}
               /\ \A o \in DOMAIN heap : heap[o].task = k => heap[o]._loop_id = None

\* C6 witness: the auto-on task stopped its loop from inside a firing
C6_StoppedFromInside ==
    /\ Tick(ev, "turn_on_task")
    /\ ev.loops = <<<<"stop", "turn_on_task">>>>
    /\ ev.cmds = <<<<"turn_on", "ok">>>>

\* C8: a tick of the auto-on loop calls turn_on() exactly when the time of day
\* has reached the armed target; that tick leaves no firing of the loop pending
\* and, when turn_on() returned, has stopped and released the loop; between one
\* start of the loop and the next its ticks call turn_on() at most once.
C8_AutoOnFiresOnce ==
    [][(Handled /\ Tick(ev', "turn_on_task"))
       => LET reached == time(strptime(turn_on_time)) <= time(now)
          IN  /\ (ev'.calls = <<"turn_on">>) <=> reached
              /\ reached => /\ TimersOf("turn_on_task")' = {}
                            /\ ev'.exc = "none" => turn_on_loop' = None
              /\ fired'["on"] <= 1]_vars

\* C8 witness: the tick that switched the bulb on and halted the loop
C8_FiredAndHalted ==
    /\ Tick(ev, "turn_on_task")
    /\ ev.cmds = <<<<"turn_on", "ok">>>>
    /\ bulb.power_state = "on"
    /\ turn_on_loop = None /\ timers = {}
    /\ fired["on"] = 1

Armed2200(d) == <<combine(d, 22 * SecondsPerHour)>>

\* C9: a tick of the auto-off loop calls turn_off() exactly when the current
\* instant, date included, has reached the stored deadline, and that tick leaves
\* no firing pending (the loop stopped and released when turn_off() returned);
\* off-time 22:00 set at 23:10 stores 22:00 of the next day, set at 21:59 it
\* stores 22:00 of the same day.
C9_AutoOffByInstant ==
    [][/\ (Handled /\ Tick(ev', "turn_off_task"))
          => LET reached == turn_off_time[1] <= now
             IN  /\ (ev'.calls = <<"turn_off">>) <=> reached
                 /\ reached => /\ TimersOf("turn_off_task")' = {}
                               /\ ev'.exc = "none" => turn_off_loop' = None
       /\ (/\ Handled
           /\ ev'.op \in {"handle_auto_off_widgets", "update_turn_off_time"}
           /\ auto_off_var' = 1
           /\ off_time' = HM(22, 0))
          => /\ time(now) = 23 * SecondsPerHour + 10 * SecondsPerMinute
                   => turn_off_time' = Armed2200(date(now) + 1)
             /\ time(now) = 21 * SecondsPerHour + 59 * SecondsPerMinute
                   => turn_off_time' = Armed2200(date(now))]_vars

\* C9 witness: armed on day 0 after 22:00, the loop polled past midnight and
\* called turn_off() on day 1 at 22:00
C9_FiredNextDay ==
    /\ Tick(ev, "turn_off_task")
    /\ ev.cmds = <<<<"turn_off", "ok">>>>
    /\ off_time = HM(22, 0)
    /\ turn_off_time = Armed2200(1)
    /\ now = combine(1, 22 * SecondsPerHour)
    /\ turn_off_loop = None

\* C10 as stated: at every tick of the auto-on loop the armed target is
\* add_subtract_minutes(current sunset, current offset).
C10_TargetFollowsInputs ==
    [][(Handled /\ Tick(ev', "turn_on_task"))
       => turn_on_time = add_subtract_minutes(sunset, offset)]_vars

C12_DeadlineWithinDay ==
    TargetCalled => (now <= call.dt /\ call.dt < now + SecondsPerDay)

\* C12 witness: called one second after the off-time, the deadline is the next
\* day's, one second short of 24 hours ahead
C12_AlmostFullDayAhead ==
    /\ TargetCalled
    /\ time(now) = call.tod * SecondsPerMinute + 1
    /\ call.dt = now + SecondsPerDay - 1

\* C13: re-selecting the off-time while auto-off is enabled replaces the stored
\* deadline at once with get_target_datetime(new off-time) taken at the instant
\* of the selection, and the tick that follows the selection compares the clock
\* against the deadline the selection stored.
C13_ReselectReplacesDeadline ==
    [][/\ (Handled /\ ev'.op = "update_turn_off_time" /\ auto_off_var = 1)
          => turn_off_time' = <<get_target_datetime(off_time', now)>>
       /\ (Handled /\ ev.op = "update_turn_off_time" /\ Tick(ev', "turn_off_task"))
          => ((ev'.calls = <<"turn_off">>) <=> (turn_off_time[1] <= now))]_vars

\* C13 witness: 22:00 re-selected at 23:10 of day 0 with the loop polling: the
\* stored deadline is now 22:00 of day 1
C13_ReselectedAfterTenPm ==
    /\ ev.op = "update_turn_off_time"
    /\ auto_off_var = 1
    /\ off_time = HM(22, 0)
    /\ now = combine(0, 23 * SecondsPerHour + 10 * SecondsPerMinute)
    /\ turn_off_time = Armed2200(1)
    /\ TimersOf("turn_off_task") # {}

\* C14: while auto-on is disabled no firing of its loop is pending and no tick of
\* it runs (disabling stops the loop in the same handler); enabling it again
\* arms the target add_subtract_minutes(sunset, offset) from the sunset and the
\* offset current at that moment, with one firing pending.
C14_DisableStopsEnableRecomputes ==
    /\ auto_on_var = 0 => TimersOf("turn_on_task") = {}
    /\ [][/\ auto_on_var' = 0 => TimersOf("turn_on_task")' = {}
          /\ (Handled /\ Tick(ev', "turn_on_task")) => auto_on_var = 1
          /\ (Handled /\ ev'.op = "handle_sunset_turn_on_widgets" /\ auto_on_var' = 1)
             => /\ turn_on_time' = add_subtract_minutes(sunset, offset)
                /\ sunset' = sunset /\ offset' = offset
                /\ Cardinality(TimersOf("turn_on_task")') = 1]_vars

\* C14 witness: auto-on checked again after an earlier arming had switched the
\* bulb on: the target is computed anew and the loop polls again
C14_EnabledAgain ==
    /\ ev.op = "handle_sunset_turn_on_widgets"
    /\ auto_on_var = 1
    /\ run.start # "none"
    /\ turn_on_time = add_subtract_minutes(sunset, offset)
    /\ Cardinality(TimersOf("turn_on_task")) = 1

\* C15: toggle() on a connected controller sends the toggle command first,
\* whatever the cached state is; when the command and the state query that
\* follows it are answered, the cached state is the state the device reported
\* and the subscriber is notified once, with that state.
C15_ToggleAlwaysSends ==
    [][(Handled /\ ev'.calls = <<"toggle">> /\ bulb.ip # None)
       => /\ Len(ev'.cmds) >= 1 /\ ev'.cmds[1][1] = "toggle"
          /\ ev'.exc = "none"
             => /\ ev'.cmds = <<<<"toggle", "ok">>, <<"get_properties", "ok">>>>
                /\ device' # device
                /\ bulb'.power_state = device'
                /\ ev'.notes = <<device'>>
                /\ bulb_state' = device']_vars

\* C15 witness: a toggle() that was answered: the device went from off to on,
\* the cache and the display hold the "on" it reported
C15_ToggleAnswered ==
    /\ ev.calls = <<"toggle">>
    /\ ev.cmds = <<<<"toggle", "ok">>, <<"get_properties", "ok">>>>
    /\ ev.notes = <<"on">>
    /\ bulb.power_state = "on" /\ device = "on" /\ bulb_state = "on"

\* C16: every handler that changes the cached power state (turn_on, turn_off,
\* toggle, the construction of a controller) calls the subscriber in that same
\* handler, last with the new state; so between handlers the state the
\* subscriber last received is the cached state of the connected controller.
C16_SubscriberSeesEveryChange ==
    /\ bulb.ip # None => bulb_state = bulb.power_state
    /\ [][(bulb'.power_state # bulb.power_state)
          => /\ ev'.notes # <<>>
             /\ ev'.notes[Len(ev'.notes)] = bulb'.power_state
             /\ bulb_state' = bulb'.power_state]_vars

\* C16 witness: turn_off() changed the cache from on to off and the subscriber
\* received "off" in that call
C16_TurnOffNotified ==
    /\ ev.calls = <<"turn_off">>
    /\ ev.cmds = <<<<"turn_off", "ok">>>>
    /\ ev.notes = <<"off">>
    /\ bulb.power_state = "off" /\ bulb_state = "off"

\* C17: turn_off() on a connected controller whose cached state is "off" does
\* nothing: no command, no change of the cache, of the device or of the display,
\* no notification.  When the cached state is "on" it sends exactly one "off"
\* command and, the command accepted, sets the cache to "off" and notifies once.
C17_TurnOffIdempotent ==
    [][(Handled /\ ev'.calls = <<"turn_off">> /\ bulb.ip # None)
       => IF bulb.power_state = "on"
          THEN /\ Len(ev'.cmds) = 1 /\ ev'.cmds[1][1] = "turn_off"
               /\ ev'.exc = "none"
                  => /\ bulb'.power_state = "off" /\ device' = "off"
                     /\ ev'.notes = <<"off">>
                     /\ bulb_state' = "off"
          ELSE /\ ev'.cmds = <<>> /\ ev'.notes = <<>> /\ ev'.exc = "none"
               /\ bulb' = bulb /\ device' = device /\ bulb_state' = bulb_state]_vars

\* C17 witness: turn_off() on a controller whose cache already said "off": nothing
\* was sent and nobody was notified
C17_AlreadyOffSilent ==
    /\ ev.op = "turn_off" /\ ev.calls = <<"turn_off">>
    /\ bulb.ip # None /\ bulb.power_state = "off"
    /\ ev.cmds = <<>> /\ ev.notes = <<>>

StopCalled(e, k) == \E i \in 1..Len(e.loops) : e.loops[i] = <<"stop", k>>

\* C18: a handler that called stop() on the auto-on loop leaves no firing of it
\* pending and the loop not running; if the loop was not running before, the
\* after queue is what it was; and a scheduler with nothing pending gets a
\* firing only from a handler that calls start().
C18_StopCancels ==
    [][/\ (Handled /\ StopCalled(ev', "turn_on_task"))
          => /\ TimersOf("turn_on_task")' = {}
             /\ \A o \in DOMAIN heap' :
                   heap'[o].task = "turn_on_task" => ~is_running([heap |-> heap'], o)
             /\ (turn_on_loop = None \/ ~is_running([heap |-> heap], turn_on_loop[1]))
                   => timers' = timers
       /\ (/\ TimersOf("turn_on_task") = {}
           /\ Handled => ~StartCalled(ev', "turn_on_task"))
          => TimersOf("turn_on_task")' = {}]_vars

\* C18 witness: auto-on unchecked while its loop was polling (no bulb connected,
\* no turn_on() attempted since the loop was started): the pending firing is
\* cancelled and the loop is not running
C18_StoppedWhilePolling ==
    /\ ev.op = "handle_sunset_turn_on_widgets"
    /\ ev.loops = <<<<"stop", "turn_on_task">>>>
    /\ auto_on_var = 0
    /\ bulb.ip = None /\ fired["on"] = 0 /\ turn_on_time # None
    /\ timers = {}
    /\ ~is_running([heap |-> heap], turn_on_loop[1])

\* C19 as stated: whenever the off-time is re-selected while auto-off is enabled,
\* the auto-off loop is running afterwards, with one firing pending, toward the
\* deadline of the new selection; also when the scheduler had fired and released
\* its loop before.
C19_ReselectRearms ==
    [][(Handled /\ ev'.op = "update_turn_off_time" /\ auto_off_var = 1)
       => /\ turn_off_time' = <<get_target_datetime(off_time', now)>>
          /\ turn_off_loop' # None
          /\ is_running([heap |-> heap'], turn_off_loop'[1])
          /\ Cardinality(TimersOf("turn_off_task")') = 1]_vars

\* C20 as stated: between handlers a loop for which is_running() is true has a
\* firing pending under the handle it holds; after any sequence of start(),
\* stop() and firings, a raising task included, no loop holds a stale handle.
C20_RunningHasPendingFiring ==
    \A o \in DOMAIN heap :
        is_running([heap |-> heap], o)
            => \E t \in timers : t.obj = o /\ <<t.id>> = heap[o]._loop_id

\* C21 as stated: with the device's power changed only by this controller's
\* commands, after any sequence of turn_on, turn_off and toggle calls whose
\* driver calls each succeed or fail, the cached power_state of the connected
\* controller is the device's power state.
C21_CacheEqualsDevice ==
    bulb.ip # None => bulb.power_state = device

\* the last instant the clock of the model reaches
LastInstant == CHOOSE t \in ClockInstants : \A u \in ClockInstants : u <= t
\* scheduler k is enabled with a firing pending that the clock will reach
ArmedOn ==
    /\ auto_on_var = 1
    /\ \E t \in TimersOf("turn_on_task") : t.due <= LastInstant
ArmedOff ==
    /\ auto_off_var = 1
    /\ \E t \in TimersOf("turn_off_task") : t.due <= LastInstant
    /\ turn_off_time[1] <= LastInstant
TickRaised(k) == Tick(ev, k) /\ ev.exc # "none"
\* the tick that called turn_on() (turn_off()), stopped and released the loop
FiredOn ==
    /\ Tick(ev, "turn_on_task") /\ ev.calls = <<"turn_on">> /\ ev.exc = "none"
    /\ turn_on_loop = None /\ TimersOf("turn_on_task") = {}
    /\ bulb.ip # None => bulb.power_state = "on"
FiredOff ==
    /\ Tick(ev, "turn_off_task") /\ ev.calls = <<"turn_off">> /\ ev.exc = "none"
    /\ turn_off_loop = None /\ TimersOf("turn_off_task") = {}
    /\ bulb.ip # None => bulb.power_state = "off"

\* C22: a scheduler that is armed and never disabled (SpecLive unchecks
\* nothing), with the clock advancing to its target and due firings being run,
\* eventually has a tick that calls turn_on() (auto-on) or turn_off()
\* (auto-off), after which its loop is stopped and released and the cached
\* state of a connected controller is on (off), unless the device command of
\* one of its ticks fails.
C22_ArmedEventuallyFires ==
    /\ ArmedOn ~> (FiredOn \/ TickRaised("turn_on_task"))
    /\ ArmedOff ~> (FiredOff \/ TickRaised("turn_off_task"))

\* C22 witness: with the bulb connected, auto-on has fired and switched it on,
\* and auto-off has now fired and switched it off; both loops are released
C22_BothFired ==
    /\ FiredOff
    /\ ev.cmds = <<<<"turn_off", "ok">>>>
    /\ fired["on"] = 1 /\ fired["off"] = 1
    /\ auto_on_var = 1 /\ turn_on_loop = None
    /\ timers = {}

=============================================================================
